---- MODULE Spec2Model ----
(***************************************************************************)
(* Film data-warehouse ETL (etl_film_datawarehouse.py): extract a sheet of *)
(* film rows, transform it, load seven dimension tables and one fact table *)
(* over a single psycopg2 connection, run a verification query, close.    *)
(*                                                                         *)
(* Cell values are records [t, v, d, s]:                                   *)
(*   t = "nan"   a missing cell (NaN / None, and NULL once stored)         *)
(*   t = "num"   the number v / d (d = 1 for integers)                     *)
(*   t = "date"  a datetime, v = days since 1970-01-01                     *)
(*   t = "text"  a string, s = its characters                              *)
(* Every sheet has all the columns the script reads; what varies is the    *)
(* cells. Apart from the four faults of the variable fault, calls on the   *)
(* store fail only where a row makes them fail.                            *)
(***************************************************************************)
EXTENDS Integers, Sequences, FiniteSets, TLC

\* ------------------------------------------------------------- bounds

\* Longest sheet (number of film rows) explored.
MaxRows == 2

\* Number of times the script is run against the same sheet and database.
MaxRuns == 2

\* ------------------------------------------------------------- values

NaN == [t |-> "nan", v |-> 0, d |-> 1, s |-> <<>>]

Num(n) == [t |-> "num", v |-> n, d |-> 1, s |-> <<>>]

Ratio(n, m) == [t |-> "num", v |-> n, d |-> m, s |-> <<>>]

Date(days) == [t |-> "date", v |-> days, d |-> 1, s |-> <<>>]

Text(chars) == [t |-> "text", v |-> 0, d |-> 1, s |-> chars]

\* pd.isna / pd.notna
isna(x) == x.t = "nan"

notna(x) == x.t # "nan"

Min(a, b) == IF a <= b THEN a ELSE b

\* s[:n]
Prefix(chars, n) == SubSeq(chars, 1, Min(Len(chars), n))

Digits == <<"0", "1", "2", "3", "4", "5", "6", "7", "8", "9">>

RECURSIVE NatStr(_)
NatStr(n) == IF n < 10 THEN <<Digits[n + 1]>>
             ELSE NatStr(n \div 10) \o <<Digits[(n % 10) + 1]>>

\* str(n) for a Python int
IntStr(n) == IF n < 0 THEN <<"-">> \o NatStr(0 - n) ELSE NatStr(n)

\* str(x) of a cell that is missing, a number or a string: str(NaN) is the
\* three characters "nan"
str(x) == CASE x.t = "nan" -> <<"n", "a", "n">>
            [] x.t = "num" -> IntStr(x.v)
            [] OTHER -> x.s

\* int(x) raises ValueError on NaN and on a non-numeric string
IntRaises(x) == x.t \in {"nan", "text", "date"}

\* int(x) where it does not raise (floats truncate toward zero)
int(x) == IF x.v >= 0 THEN x.v \div x.d ELSE 0 - ((0 - x.v) \div x.d)

\* ------------------------------------------------- transform helpers

\* A string of decimal digits, the strings float() accepts here.
IsNumeric(chars) ==
    /\ chars # <<>>
    /\ \A i \in 1..Len(chars) : \E k \in 1..10 : Digits[k] = chars[i]

DigitVal(c) == (CHOOSE k \in 1..10 : Digits[k] = c) - 1

RECURSIVE StrVal(_)
StrVal(chars) ==
    IF chars = <<>> THEN 0
    ELSE 10 * StrVal(SubSeq(chars, 1, Len(chars) - 1)) + DigitVal(chars[Len(chars)])

\* float(value) raises on a non-numeric string (and on a datetime)
FloatRaises(value) ==
    \/ value.t = "date"
    \/ value.t = "text" /\ ~IsNumeric(value.s)

float(value) == IF value.t = "text" THEN Num(StrVal(value.s)) ELSE value

\* clean_numeric: NaN, '' and 0 give None (the string "0" is not == 0);
\* otherwise float(value), None when float raises
clean_numeric(value) ==
    IF isna(value) \/ (value.t = "text" /\ value.s = <<>>)
                   \/ (value.t = "num" /\ value.v = 0)
    THEN NaN
    ELSE IF FloatRaises(value) THEN NaN ELSE float(value)

\* pd.Timestamp('1899-12-30'), in days since 1970-01-01
ExcelEpoch == -25569

\* parse_excel_date: a datetime is kept, a number is a day count from the
\* Excel epoch, a string that pd.to_datetime rejects gives None
parse_excel_date(date_value) ==
    CASE isna(date_value) -> NaN
      [] date_value.t = "date" -> date_value
      [] date_value.t = "num" -> Date(ExcelEpoch + int(date_value))
      [] OTHER -> NaN

\* The civil (year, month, day) of a day count since 1970-01-01.
Civil(days) ==
    LET z == days + 719468
        era == z \div 146097
        doe == z - era * 146097
        yoe == (doe - doe \div 1460 + doe \div 36524 - doe \div 146096) \div 365
        doy == doe - (365 * yoe + yoe \div 4 - yoe \div 100)
        mp == (5 * doy + 2) \div 153
        m == IF mp < 10 THEN mp + 3 ELSE mp - 9
    IN  [year |-> yoe + era * 400 + (IF m <= 2 THEN 1 ELSE 0),
         month |-> m,
         day |-> doy - (153 * mp + 2) \div 5 + 1]

\* date.strftime('%B')
MonthNames == <<
    <<"J", "a", "n", "u", "a", "r", "y">>,
    <<"F", "e", "b", "r", "u", "a", "r", "y">>,
    <<"M", "a", "r", "c", "h">>,
    <<"A", "p", "r", "i", "l">>,
    <<"M", "a", "y">>,
    <<"J", "u", "n", "e">>,
    <<"J", "u", "l", "y">>,
    <<"A", "u", "g", "u", "s", "t">>,
    <<"S", "e", "p", "t", "e", "m", "b", "e", "r">>,
    <<"O", "c", "t", "o", "b", "e", "r">>,
    <<"N", "o", "v", "e", "m", "b", "e", "r">>,
    <<"D", "e", "c", "e", "m", "b", "e", "r">> >>

\* extract_time_components: (year, quarter, month, month_name), all None
\* for a missing date
extract_time_components(date) ==
    IF isna(date)
    THEN [Year |-> NaN, Quarter |-> NaN, Month |-> NaN, MonthName |-> NaN]
    ELSE LET c == Civil(date.v)
         IN  [Year |-> Num(c.year),
              Quarter |-> Num((c.month - 1) \div 3 + 1),
              Month |-> Num(c.month),
              MonthName |-> Text(MonthNames[c.month])]

\* Series subtraction: NaN when either operand is missing
Minus(a, b) == IF isna(a) \/ isna(b) THEN NaN
               ELSE Ratio(a.v * b.d - b.v * a.d, a.d * b.d)

\* Series division, element-wise and never raising (a zero divisor gives an
\* infinite value, written here with denominator 0)
Div(a, b) == IF isna(a) \/ isna(b) THEN NaN
             ELSE IF b.v > 0 THEN Ratio(a.v * b.d, a.d * b.v)
             ELSE Ratio(0 - a.v * b.d, a.d * (0 - b.v))

\* The ratio taken whatever the budget's sign.
ROINoGuard(budget, box) == Div(Minus(box, budget), budget)

\* np.where(budget > 0, (box - budget) / budget, None); NaN > 0 is False
ROI(budget, box) ==
    IF notna(budget) /\ budget.v > 0
    THEN Div(Minus(box, budget), budget)
    ELSE NaN

\* transform_data, one row: the raw columns plus the derived ones
transform_row(r) ==
    LET parsed == parse_excel_date(r.ReleaseDate)
        budget == clean_numeric(r.BudgetDollars)
        box == clean_numeric(r.BoxOfficeDollars)
    IN  [ReleaseDate_Parsed |-> parsed,
         BudgetDollars_Clean |-> budget,
         BoxOfficeDollars_Clean |-> box,
         ProfitDollars |-> Minus(box, budget),
         ROI |-> ROI(budget, box)]
        @@ extract_time_components(parsed) @@ r

transform_data(frame) == [i \in 1..Len(frame) |-> transform_row(frame[i])]

\* ---------------------------------------------------------- the sheet

\* Release dates used in the sheets: 2000-01-15 and 2010-11-05.
DateA == Date(10971)

DateB == Date(14918)

\* A well-formed film row of the 'Films' sheet.
BaseRow ==
    [FilmID |-> Num(1), Title |-> Text(<<"U", "p">>),
     CertificateID |-> NaN, Certificate |-> Num(12), Review |-> NaN,
     ReleaseDate |-> DateA,
     BudgetDollars |-> Num(10), BoxOfficeDollars |-> Num(30),
     RunTimeMinutes |-> Num(90),
     OscarNominations |-> NaN, OscarWins |-> Num(1),
     DirectorID |-> Num(1), StudioID |-> Num(1), GenreID |-> Num(1),
     CountryID |-> Num(1), LanguageID |-> Num(1)]

Junk == Text(<<"?">>)

\* The rows a sheet is drawn from: the film ID and the release date vary
\* together, every other column varies alone.
SheetRows ==
    {[BaseRow EXCEPT !.FilmID = f, !.ReleaseDate = d] :
        f \in {Num(1), Num(2), NaN}, d \in {DateA, NaN}}
    \cup {[BaseRow EXCEPT !.ReleaseDate = DateB],
          [BaseRow EXCEPT !.ReleaseDate = Num(36526), !.RunTimeMinutes = Num(120)],
          [BaseRow EXCEPT !.Title = NaN, !.CertificateID = Num(15)],
          [BaseRow EXCEPT !.RunTimeMinutes = NaN, !.DirectorID = NaN],
          [BaseRow EXCEPT !.DirectorID = Junk, !.LanguageID = Junk],
          [BaseRow EXCEPT !.FilmID = Num(2), !.StudioID = Num(2),
                          !.BudgetDollars = Num(0)]}

RECURSIVE SeqsUpTo(_, _)
SeqsUpTo(S, n) ==
    IF n = 0 THEN {<<>>}
    ELSE LET shorter == SeqsUpTo(S, n - 1)
         IN  shorter \cup {Append(q, x) : q \in shorter, x \in S}

\* --------------------------------------------------------- the store

Tables == {"DimTime", "DimFilm", "DimDirector", "DimStudio", "DimGenre",
           "DimCountry", "DimLanguage", "FactFilmPerformance"}

\* The conflict target of each table's INSERT ... ON CONFLICT (key).
KeyCol ==
    [DimTime |-> "TimeID", DimFilm |-> "FilmID", DimDirector |-> "DirectorID",
     DimStudio |-> "StudioID", DimGenre |-> "GenreID",
     DimCountry |-> "CountryID", DimLanguage |-> "LanguageID",
     FactFilmPerformance |-> "FilmID"]

EmptyStore == [tb \in Tables |-> {}]

Keys(view, tbl) == {r[KeyCol[tbl]] : r \in view[tbl]}

\* The statement without its ON CONFLICT clause: no row is ever skipped.
NoConflictClause(view, tbl, row) == FALSE

\* ON CONFLICT (key) DO NOTHING: a row with the key is already there
Conflicts(view, tbl, row) == row[KeyCol[tbl]] \in Keys(view, tbl)

\* The transaction's view after INSERT ... ON CONFLICT DO NOTHING
Insert(view, tbl, row) ==
    IF Conflicts(view, tbl, row) THEN view
    ELSE [view EXCEPT ![tbl] = @ \cup {row}]

\* cursor.rowcount after that statement
rowcount(view, tbl, row) == IF Conflicts(view, tbl, row) THEN 0 ELSE 1

\* The columns of a fact row that reference a dimension, with the table.
FactRefs ==
    {<<"FilmID", "DimFilm">>, <<"DirectorID", "DimDirector">>,
     <<"StudioID", "DimStudio">>, <<"GenreID", "DimGenre">>,
     <<"CountryID", "DimCountry">>, <<"LanguageID", "DimLanguage">>,
     <<"TimeID", "DimTime">>}

\* The value of a reference column as a key (FilmID is stored as an int,
\* the others as nullable cells).
RefKey(row, col) == IF col = "FilmID" THEN row[col] ELSE row[col].v

RefNull(row, col) == col # "FilmID" /\ isna(row[col])

\* A fact row with a non-null reference to a dimension row that is not there
Dangling(view, row) ==
    \E ref \in FactRefs :
        /\ ~RefNull(row, ref[1])
        /\ RefKey(row, ref[1]) \notin Keys(view, ref[2])

\* -------------------------------------------------------- the loaders

\* The calls with the fact table loaded first.
FactFirstOrder ==
    <<"fact", "time", "film", "director", "studio", "genre", "country",
      "language">>

\* run_etl's calls, in order: the seven dimensions, then the fact table.
LoaderOrder ==
    <<"time", "film", "director", "studio", "genre", "country", "language",
      "fact">>

\* The arguments run_etl passes to load_dimension_generic.
GenericArgs ==
    [director |-> [dim_table |-> "DimDirector", id_col |-> "DirectorID",
                   name_col |-> "DirectorName",
                   display_name |-> <<"D", "i", "r", "e", "c", "t", "o", "r">>],
     studio |-> [dim_table |-> "DimStudio", id_col |-> "StudioID",
                 name_col |-> "StudioName",
                 display_name |-> <<"S", "t", "u", "d", "i", "o">>],
     genre |-> [dim_table |-> "DimGenre", id_col |-> "GenreID",
                name_col |-> "GenreName",
                display_name |-> <<"G", "e", "n", "r", "e">>],
     country |-> [dim_table |-> "DimCountry", id_col |-> "CountryID",
                  name_col |-> "CountryName",
                  display_name |-> <<"C", "o", "u", "n", "t", "r", "y">>],
     language |-> [dim_table |-> "DimLanguage", id_col |-> "LanguageID",
                   name_col |-> "LanguageName",
                   display_name |-> <<"L", "a", "n", "g", "u", "a", "g", "e">>]]

Generic == DOMAIN GenericArgs

\* The table each sub-loader inserts into.
TargetTable(loader) ==
    CASE loader = "time" -> "DimTime"
      [] loader = "film" -> "DimFilm"
      [] loader = "fact" -> "FactFilmPerformance"
      [] OTHER -> GenericArgs[loader].dim_table

\* frame[mask]: the rows that pass, in order
Filter(frame, Keep(_)) == SelectSeq(frame, Keep)

\* drop_duplicates(subset=[col]): the first row of each value (NaN is one value)
RECURSIVE DropDuplicates(_, _, _)
DropDuplicates(frame, col, seen) ==
    IF frame = <<>> THEN <<>>
    ELSE IF Head(frame)[col] \in seen
         THEN DropDuplicates(Tail(frame), col, seen)
         ELSE <<Head(frame)>>
              \o DropDuplicates(Tail(frame), col, seen \cup {Head(frame)[col]})

\* drop_duplicates(subset=[col], keep='last')
RECURSIVE DropDuplicatesKeepLast(_, _)
DropDuplicatesKeepLast(frame, col) ==
    IF frame = <<>> THEN <<>>
    ELSE (IF \E j \in 2..Len(frame) : frame[j][col] = Head(frame)[col]
          THEN <<>> ELSE <<Head(frame)>>)
         \o DropDuplicatesKeepLast(Tail(frame), col)

TimeCols == {"RunTimeMinutes", "ReleaseDate_Parsed", "Year", "Quarter",
             "Month", "MonthName"}

Project(frame, cols) ==
    [i \in 1..Len(frame) |-> [c \in cols |-> frame[i][c]]]

DatedRow(r) == notna(r.ReleaseDate_Parsed)

\* time_data with the last row of each RunTimeMinutes kept instead.
time_data_keep_last(frame) ==
    DropDuplicatesKeepLast(Filter(Project(frame, TimeCols), DatedRow),
                           "RunTimeMinutes")

\* load_dimension_time's time_data: the dated rows, then the first of each
\* RunTimeMinutes among them
time_data(frame) ==
    DropDuplicates(Filter(Project(frame, TimeCols), DatedRow),
                   "RunTimeMinutes", {})

\* load_dimension_generic's unique_values: df[[id_col]].dropna().drop_duplicates()
unique_values(frame, id_col) ==
    LET NotMissing(r) == notna(r[id_col])
    IN  DropDuplicates(Filter(Project(frame, {id_col}), NotMissing), id_col, {})

\* The rows a sub-loader iterates over.
Iteration(loader, frame) ==
    CASE loader = "time" -> time_data(frame)
      [] loader \in {"film", "fact"} -> frame
      [] OTHER -> unique_values(frame, GenericArgs[loader].id_col)

\* int(x) if pd.notna(x) else None
IntOrNone(x) == IF notna(x) THEN Num(int(x)) ELSE NaN

\* int(x) if pd.notna(x) else 0
IntOrZero(x) == IF notna(x) THEN Num(int(x)) ELSE Num(0)

\* that expression raises
OptRaises(x) == notna(x) /\ IntRaises(x)

\* load_dimension_time: building the statement's parameters raises
TimeRaises(row) ==
    \/ IntRaises(row.RunTimeMinutes)
    \/ OptRaises(row.Year) \/ OptRaises(row.Quarter) \/ OptRaises(row.Month)

TimeRow(row) ==
    [TimeID |-> int(row.RunTimeMinutes),
     FullDate |-> row.ReleaseDate_Parsed,
     Year |-> IntOrNone(row.Year),
     Quarter |-> IntOrNone(row.Quarter),
     Month |-> IntOrNone(row.Month),
     MonthName |-> row.MonthName]

\* load_dimension_film: cert_value, from CertificateID or else Certificate
\* (both columns are in the sheet)
cert_value(row) ==
    IF notna(row.CertificateID) THEN Text(IntStr(int(row.CertificateID)))
    ELSE IF notna(row.Certificate) THEN Text(IntStr(int(row.Certificate)))
    ELSE NaN

review_value(row) ==
    IF notna(row.Review) THEN Text(Prefix(str(row.Review), 500)) ELSE NaN

FilmRaises(row) ==
    \/ OptRaises(row.CertificateID)
    \/ isna(row.CertificateID) /\ OptRaises(row.Certificate)
    \/ IntRaises(row.FilmID)

FilmRow(row) ==
    [FilmID |-> int(row.FilmID),
     Title |-> Prefix(str(row.Title), 200),
     Certificate |-> cert_value(row),
     Review |-> review_value(row)]

\* load_dimension_generic: id_value = int(row[id_col]) raises
GenericRaises(loader, row) == IntRaises(row[GenericArgs[loader].id_col])

GenericRow(loader, row) ==
    LET a == GenericArgs[loader]
        id_value == int(row[a.id_col])
    IN  (a.id_col :> id_value)
        @@ (a.name_col :> a.display_name \o <<"_">> \o IntStr(id_value))

\* load_fact_table: building the statement's parameters raises
FactRaises(row) ==
    \/ IntRaises(row.FilmID)
    \/ \E c \in {"DirectorID", "StudioID", "GenreID", "CountryID", "LanguageID",
                 "RunTimeMinutes", "OscarNominations", "OscarWins"} :
           OptRaises(row[c])

FactRow(row) ==
    [FilmID |-> int(row.FilmID),
     DirectorID |-> IntOrNone(row.DirectorID),
     StudioID |-> IntOrNone(row.StudioID),
     GenreID |-> IntOrNone(row.GenreID),
     CountryID |-> IntOrNone(row.CountryID),
     LanguageID |-> IntOrNone(row.LanguageID),
     TimeID |-> IntOrNone(row.RunTimeMinutes),
     BudgetDollars |-> row.BudgetDollars_Clean,
     BoxOfficeDollars |-> row.BoxOfficeDollars_Clean,
     OscarNominations |-> IntOrZero(row.OscarNominations),
     OscarWins |-> IntOrZero(row.OscarWins),
     RunTimeMinutes |-> IntOrNone(row.RunTimeMinutes),
     ProfitDollars |-> row.ProfitDollars,
     ROI |-> row.ROI]

\* ------------------------------------------------------------- state

VARIABLES
    sheet,       \* the rows of the Excel sheet (EXCEL_FILE)
    fault,       \* what fails in the environment: "none", "extract" (the
                 \* file cannot be read), "connect" (psycopg2.connect raises),
                 \* "commit" (the store refuses the fact loader's commit),
                 \* "verify" (the verification query raises)
    fkEnforced,  \* whether the pre-created schema declares the fact table's
                 \* foreign keys
    run,         \* which run of the script this is
    pc,          \* where run_etl is
    df,          \* df_clean
    conn,        \* "none", "open" or "closed"
    stage,       \* index in LoaderOrder of the sub-loader running
    items,       \* the rows the running sub-loader iterates over
    idx,         \* the next of them
    inserted,    \* the running sub-loader's counters
    errors,
    db,          \* committed rows, per table
    tx,          \* the connection's view: db plus its uncommitted inserts
    ops,         \* the calls made on the connection in this run, in order
    printed,     \* the counts each finished sub-loader printed
    snap         \* db as it was when this run started

vars == <<sheet, fault, fkEnforced, run, pc, df, conn, stage, items, idx,
          inserted, errors, db, tx, ops, printed, snap>>

env == <<sheet, fault, fkEnforced>>

Faults == {"extract", "connect", "commit", "verify"}

\* The sheets explored together with an environment fault.
FaultRows == {BaseRow, [BaseRow EXCEPT !.FilmID = NaN]}

Op(op, tbl, key, rc) == [op |-> op, tbl |-> tbl, key |-> key, rc |-> rc]

Call(op) == Op(op, "", 0, 0)

Init ==
    /\ \/ fault = "none" /\ sheet \in SeqsUpTo(SheetRows, MaxRows)
       \/ fault \in Faults /\ sheet \in SeqsUpTo(FaultRows, MaxRows)
    /\ fkEnforced \in BOOLEAN
    /\ run = 1
    /\ pc = "extract"
    /\ df = <<>>
    /\ conn = "none"
    /\ stage = 0
    /\ items = <<>>
    /\ idx = 0
    /\ inserted = 0
    /\ errors = 0
    /\ db = EmptyStore
    /\ tx = EmptyStore
    /\ ops = <<>>
    /\ printed = <<>>
    /\ snap = EmptyStore

\* ----------------------------------------------------------- run_etl

\* df = extract_data(); if df is None: return
extract_data ==
    /\ pc = "extract"
    /\ pc' = IF fault = "extract" THEN "done" ELSE "transform"
    /\ UNCHANGED <<env, run, df, conn, stage, items, idx, inserted, errors,
                   db, tx, ops, printed, snap>>

\* df_clean = transform_data(df)
transform ==
    /\ pc = "transform"
    /\ df' = transform_data(sheet)
    /\ pc' = "connect"
    /\ UNCHANGED <<env, run, conn, stage, items, idx, inserted, errors,
                   db, tx, ops, printed, snap>>

\* conn = get_db_connection(); if conn is None: return
get_db_connection ==
    /\ pc = "connect"
    /\ IF fault = "connect"
       THEN /\ pc' = "done"
            /\ UNCHANGED <<conn, stage>>
       ELSE /\ pc' = "begin"
            /\ conn' = "open"
            /\ stage' = 1
    /\ UNCHANGED <<env, run, df, items, idx, inserted, errors, db, tx, ops,
                   printed, snap>>

\* A sub-loader is entered: cursor = conn.cursor(), the rows to iterate over
\* are computed, inserted = errors = 0.
LoaderBegin ==
    /\ pc = "begin"
    /\ ops' = Append(ops, Op("cursor", TargetTable(LoaderOrder[stage]), 0, 0))
    /\ items' = Iteration(LoaderOrder[stage], df)
    /\ idx' = 1
    /\ inserted' = 0
    /\ errors' = 0
    /\ pc' = "rows"
    /\ UNCHANGED <<env, run, df, conn, stage, db, tx, printed, snap>>

\* The row's exception without the loop's try/except: it leaves the
\* sub-loader for run_etl's handler.
RowFailedEscapes(entries) ==
    /\ ops' = ops \o entries
    /\ tx' = db
    /\ pc' = "except"
    /\ UNCHANGED <<errors, idx, db, inserted>>

\* except Exception: conn.rollback(); errors += 1, and on to the next row
RowFailed(entries) ==
    /\ ops' = ops \o entries \o <<Call("rollback")>>
    /\ tx' = db
    /\ errors' = errors + 1
    /\ idx' = idx + 1
    /\ UNCHANGED <<db, inserted, pc>>

\* cursor.execute(INSERT ... ON CONFLICT DO NOTHING) went through:
\* inserted += cursor.rowcount, and conn.commit() in a dimension sub-loader
RowExecuted(tbl, row, commits) ==
    LET rc == rowcount(tx, tbl, row)
        view == Insert(tx, tbl, row)
        key == row[KeyCol[tbl]]
    IN  /\ inserted' = inserted + rc
        /\ tx' = view
        /\ db' = IF commits THEN view ELSE db
        /\ ops' = ops \o <<Op("execute", tbl, key, rc)>>
                      \o (IF commits THEN <<Call("commit")>> ELSE <<>>)
        /\ idx' = idx + 1
        /\ UNCHANGED <<errors, pc>>

InLoop(loaders) ==
    /\ pc = "rows"
    /\ LoaderOrder[stage] \in loaders
    /\ idx <= Len(items)

\* One iteration of load_dimension_time's loop.
load_dimension_time ==
    /\ InLoop({"time"})
    /\ IF TimeRaises(items[idx])
       THEN RowFailed(<<>>)
       ELSE RowExecuted("DimTime", TimeRow(items[idx]), TRUE)
    /\ UNCHANGED <<env, run, df, conn, stage, items, printed, snap>>

\* One iteration of load_dimension_film's loop.
load_dimension_film ==
    /\ InLoop({"film"})
    /\ IF FilmRaises(items[idx])
       THEN RowFailed(<<>>)
       ELSE RowExecuted("DimFilm", FilmRow(items[idx]), TRUE)
    /\ UNCHANGED <<env, run, df, conn, stage, items, printed, snap>>

\* One iteration of load_dimension_generic's loop.
load_dimension_generic ==
    /\ InLoop(Generic)
    /\ LET loader == LoaderOrder[stage]
       IN  IF GenericRaises(loader, items[idx])
           THEN RowFailed(<<>>)
           ELSE RowExecuted(TargetTable(loader),
                            GenericRow(loader, items[idx]), TRUE)
    /\ UNCHANGED <<env, run, df, conn, stage, items, printed, snap>>

\* The store raises on the fact INSERT: the row is not a conflict and, the
\* foreign keys being declared, references a dimension row that is missing.
StoreRejects(row) ==
    /\ fkEnforced
    /\ ~Conflicts(tx, "FactFilmPerformance", row)
    /\ Dangling(tx, row)

\* One iteration of load_fact_table's loop: no commit here.
load_fact_table ==
    /\ InLoop({"fact"})
    /\ IF FactRaises(items[idx])
       THEN RowFailed(<<>>)
       ELSE LET row == FactRow(items[idx])
            IN  IF StoreRejects(row)
                THEN RowFailed(<<Op("execute", "FactFilmPerformance",
                                    row.FilmID, -1)>>)
                ELSE RowExecuted("FactFilmPerformance", row, FALSE)
    /\ UNCHANGED <<env, run, df, conn, stage, items, printed, snap>>

Report == [loader |-> LoaderOrder[stage], inserted |-> inserted,
           errors |-> errors]

\* A dimension sub-loader's loop is over: it prints its counts and returns.
DimensionEnd ==
    /\ pc = "rows"
    /\ LoaderOrder[stage] # "fact"
    /\ idx > Len(items)
    /\ printed' = Append(printed, Report)
    /\ stage' = stage + 1
    /\ pc' = "begin"
    /\ UNCHANGED <<env, run, df, conn, items, idx, inserted, errors, db, tx,
                   ops, snap>>

\* load_fact_table's loop is over: conn.commit(), then the counts. A commit
\* the store refuses raises out of the sub-loader.
FactEnd ==
    /\ pc = "rows"
    /\ LoaderOrder[stage] = "fact"
    /\ idx > Len(items)
    /\ IF fault = "commit"
       THEN /\ ops' = Append(ops, Op("commit", "", 0, -1))
            /\ tx' = db
            /\ pc' = "except"
            /\ UNCHANGED <<db, printed>>
       ELSE /\ ops' = Append(ops, Call("commit"))
            /\ db' = tx
            /\ printed' = Append(printed, Report)
            /\ pc' = "verify"
            /\ UNCHANGED tx
    /\ UNCHANGED <<env, run, df, conn, stage, items, idx, inserted, errors,
                   snap>>

\* The verification queries: COUNT(*), then the sums, on a new cursor.
verify ==
    /\ pc = "verify"
    /\ IF fault = "verify"
       THEN /\ ops' = ops \o <<Op("cursor", "verify", 0, 0),
                              Op("select", "FactFilmPerformance", 0, -1)>>
            /\ pc' = "except"
       ELSE /\ ops' = ops \o <<Op("cursor", "verify", 0, 0),
                              Op("select", "FactFilmPerformance", 0, 0),
                              Op("select", "FactFilmPerformance", 0, 0)>>
            /\ pc' = "finally"
    /\ UNCHANGED <<env, run, df, conn, stage, items, idx, inserted, errors,
                   db, tx, printed, snap>>

\* run_etl's handler without its rollback.
ExceptNoRollback ==
    /\ pc = "except"
    /\ pc' = "finally"
    /\ UNCHANGED <<env, run, df, conn, stage, items, idx, inserted, errors,
                   db, tx, ops, printed, snap>>

\* except Exception as e: conn.rollback()
Except ==
    /\ pc = "except"
    /\ ops' = Append(ops, Call("rollback"))
    /\ tx' = db
    /\ pc' = "finally"
    /\ UNCHANGED <<env, run, df, conn, stage, items, idx, inserted, errors,
                   db, printed, snap>>

\* finally: conn.close()
Finally ==
    /\ pc = "finally"
    /\ ops' = Append(ops, Call("close"))
    /\ conn' = "closed"
    /\ tx' = db
    /\ pc' = "done"
    /\ UNCHANGED <<env, run, df, stage, items, idx, inserted, errors, db,
                   printed, snap>>

\* The script is run again on the same sheet against the same database.
Rerun ==
    /\ pc = "done"
    /\ run < MaxRuns
    /\ run' = run + 1
    /\ snap' = db
    /\ pc' = "extract"
    /\ df' = <<>>
    /\ conn' = "none"
    /\ stage' = 0
    /\ items' = <<>>
    /\ idx' = 0
    /\ inserted' = 0
    /\ errors' = 0
    /\ ops' = <<>>
    /\ printed' = <<>>
    /\ UNCHANGED <<env, db, tx>>

Next ==
    \/ extract_data
    \/ transform
    \/ get_db_connection
    \/ LoaderBegin
    \/ load_dimension_time
    \/ load_dimension_film
    \/ load_dimension_generic
    \/ load_fact_table
    \/ DimensionEnd
    \/ FactEnd
    \/ verify
    \/ Except
    \/ Finally
    \/ Rerun

Spec == Init /\ [][Next]_vars

\* The transform alone, over sheets whose budget and box office vary.
Money ==
    {NaN, Text(<<>>), Num(0), Junk, Num(-5), Num(10), Num(20),
     Text(<<"0">>), Text(<<"4", "0">>)}

MoneyRows ==
    {[BaseRow EXCEPT !.BudgetDollars = b, !.BoxOfficeDollars = x] :
        b \in Money, x \in {NaN, Num(0), Num(5), Num(30)}}

InitT ==
    /\ sheet \in SeqsUpTo(MoneyRows, MaxRows)
    /\ fault = "none"
    /\ fkEnforced = FALSE
    /\ run = 1
    /\ pc = "extract"
    /\ df = <<>>
    /\ conn = "none"
    /\ stage = 0
    /\ items = <<>>
    /\ idx = 0
    /\ inserted = 0
    /\ errors = 0
    /\ db = EmptyStore
    /\ tx = EmptyStore
    /\ ops = <<>>
    /\ printed = <<>>
    /\ snap = EmptyStore

NextT ==
    \/ extract_data
    \/ transform

SpecT == InitT /\ [][NextT]_vars

\* ------------------------------------------------------------ claims

Fact == "FactFilmPerformance"

DimTables == Tables \ {Fact}

\* Rows of a table written by the current run.
Written(tbl) == db[tbl] \ snap[tbl]

\* The calls of the sub-loader of table tbl: from its cursor to the next one.
SegStart(tbl) ==
    CHOOSE i \in 1..Len(ops) : ops[i].op = "cursor" /\ ops[i].tbl = tbl

Began(tbl) == \E i \in 1..Len(ops) : ops[i].op = "cursor" /\ ops[i].tbl = tbl

First(S) == CHOOSE i \in S : \A j \in S : i <= j

SegEnd(tbl) ==
    LET later == {j \in (SegStart(tbl) + 1)..Len(ops) : ops[j].op = "cursor"}
    IN  IF later = {} THEN Len(ops) ELSE First(later) - 1

InSegment(i, tbl) ==
    /\ Began(tbl)
    /\ i > SegStart(tbl)
    /\ i <= SegEnd(tbl)

\* How many calls of the given kinds the sub-loader of tbl made.
CallsIn(tbl, kinds) ==
    IF ~Began(tbl) THEN 0
    ELSE LET from == SegStart(tbl) + 1
             to == SegEnd(tbl)
         IN  Cardinality({i \in from..to : ops[i].op \in kinds})

Reported(loader) == \E i \in 1..Len(printed) : printed[i].loader = loader

ReportOf(loader) ==
    printed[CHOOSE i \in 1..Len(printed) : printed[i].loader = loader]

\* C1: after the fact loader's final commit, every fact row whose INSERT
\* went through with rowcount 1 (it succeeded and its FilmID was not in the
\* table) is in FactFilmPerformance, whatever other row of the batch failed.
C1_InsertedFactRowsSurviveCommit ==
    Reported("fact") =>
        \A i \in 1..Len(ops) :
            (ops[i].op = "execute" /\ ops[i].tbl = Fact /\ ops[i].rc = 1)
                => ops[i].key \in Keys(db, Fact)

Attempts(tbl) == CallsIn(tbl, {"commit", "rollback"})

PastLoaders ==
    \/ pc \in {"verify", "except", "finally"}
    \/ pc = "done" /\ conn = "closed"

\* The number of rows each dimension sub-loader is to go through.
DueRows(tbl) ==
    CASE tbl = "DimTime" ->
            Cardinality({df[i].RunTimeMinutes : i \in
                {j \in 1..Len(df) : notna(df[j].ReleaseDate_Parsed)}})
      [] tbl = "DimFilm" -> Len(df)
      [] OTHER ->
            Cardinality({df[i][KeyCol[tbl]] : i \in
                {j \in 1..Len(df) : notna(df[j][KeyCol[tbl]])}})

\* C3: a row failure in a dimension sub-loader is confined to the row: the
\* rows of the dimension committed before stay in the table, every row of the
\* dimension is still gone through, and every later sub-loader is entered.
C3_RowFailureIsConfined ==
    /\ \A i \in 1..Len(ops) :
           (ops[i].op = "execute" /\ ops[i].tbl \in DimTables /\ ops[i].rc = 1)
               => ops[i].key \in Keys(db, ops[i].tbl)
    /\ PastLoaders =>
           /\ \A tbl \in Tables : Began(tbl)
           /\ \A tbl \in DimTables : Attempts(tbl) = DueRows(tbl)

\* C3's case: the run is over, and a dimension sub-loader both lost a row to
\* an error and committed another.
C3_Witness ==
    /\ pc = "done" /\ Reported("fact")
    /\ \E i \in 1..Len(printed) :
           /\ printed[i].loader # "fact"
           /\ printed[i].errors > 0 /\ printed[i].inserted > 0

\* C4: every fact row the run wrote references, by each non-null foreign
\* key and by its FilmID, a row present in the dimension table.
C4_FactRowsReferenceDimensionRows ==
    pc = "done" => \A r \in Written(Fact) : ~Dangling(db, r)

ExpectedCursors ==
    <<"DimTime", "DimFilm", "DimDirector", "DimStudio", "DimGenre",
      "DimCountry", "DimLanguage", "FactFilmPerformance", "verify">>

CursorTables == SelectSeq([i \in 1..Len(ops) |-> ops[i]],
                          LAMBDA e : e.op = "cursor")

\* The fact sub-loader's commits that went through.
FactCommits ==
    {j \in 1..Len(ops) :
        ops[j].op = "commit" /\ ops[j].rc = 0 /\ InSegment(j, Fact)}

\* C5: the sub-loaders are entered in the order time, film, director,
\* studio, genre, country, language, fact; each dimension's statements are
\* issued by its own sub-loader; no statement touches FactFilmPerformance
\* before the fact sub-loader is entered, after the seven others; and the
\* verification query follows the fact loader's commit.
C5_DimensionsBeforeFact ==
    /\ Len(CursorTables) <= Len(ExpectedCursors)
    /\ \A k \in 1..Len(CursorTables) : CursorTables[k].tbl = ExpectedCursors[k]
    /\ \A i \in 1..Len(ops) :
           /\ ops[i].op = "execute" => InSegment(i, ops[i].tbl)
           /\ ops[i].op = "select" =>
                  /\ InSegment(i, "verify")
                  /\ FactCommits # {}
                  /\ \A j \in FactCommits : j < i
    /\ \A j \in FactCommits : \A k \in 1..Len(ops) :
           (ops[k].op = "execute" /\ ops[k].tbl = Fact) => k < j
    /\ Cardinality(FactCommits) <= 1

\* C5's case: a run that reached the verification query although a dimension
\* row failed to insert.
C5_Witness ==
    /\ pc = "done" /\ Began("verify")
    /\ \E i \in 1..Len(printed) :
           printed[i].loader # "fact" /\ printed[i].errors > 0
    /\ \E i \in 1..Len(ops) : ops[i].op = "execute" /\ ops[i].tbl = Fact

Escaped ==
    \E i \in 1..Len(ops) : ops[i].op \in {"commit", "select"} /\ ops[i].rc = -1

\* C6: once the connection was acquired it is closed exactly once, by the
\* last call of the run, after a rollback when an exception escaped; no call
\* follows the close; and a run that did not acquire it issues nothing.
C6_ConnectionClosedOnce ==
    /\ conn = "none" => (ops = <<>> /\ db = snap)
    /\ \A i \in 1..Len(ops) : ops[i].op = "close" => i = Len(ops)
    /\ conn = "closed" <=> (ops # <<>> /\ ops[Len(ops)].op = "close")
    /\ (pc = "done" /\ conn # "none") => conn = "closed"
    /\ (conn = "closed" /\ Escaped) =>
           (Len(ops) >= 2 /\ ops[Len(ops) - 1].op = "rollback")

\* C6's case: a run whose verification query or fact commit raised has ended.
C6_Witness == pc = "done" /\ conn = "closed" /\ Escaped

\* C6's other case: a run that ended without a connection.
C6_WitnessNoHandle == pc = "done" /\ conn = "none" /\ fault = "connect"

\* C7: on every transformed row, ROI is (box office - budget) / budget when
\* the clean budget is present and above zero (absent when the clean box
\* office is absent), and absent for every other budget: missing, empty,
\* zero, non-numeric, negative. Rows with equal budget and box office cells
\* get equal ROI.
C7_RoiOnlyOverPositiveBudget ==
    \A i \in 1..Len(df) :
        LET budget == df[i].BudgetDollars_Clean
            box == df[i].BoxOfficeDollars_Clean
            roi == df[i].ROI
            raw == df[i].BudgetDollars
        IN  /\ (notna(budget) /\ budget.v * budget.d > 0) =>
                   IF isna(box) THEN isna(roi)
                   ELSE /\ notna(roi)
                        /\ roi.d # 0
                        /\ roi.v * budget.v * box.d
                               = (box.v * budget.d - budget.v * box.d) * roi.d
            /\ ~(notna(budget) /\ budget.v * budget.d > 0) => isna(roi)
            /\ (isna(raw) \/ raw = Text(<<>>) \/ raw = Junk
                  \/ (raw.t = "num" /\ raw.v <= 0)) => isna(roi)
            /\ \A j \in 1..Len(df) :
                   (df[j].BudgetDollars = raw
                      /\ df[j].BoxOfficeDollars = df[i].BoxOfficeDollars)
                       => df[j].ROI = roi

\* C7's case: one transformed batch holds a row with a computed ROI and a
\* row whose negative budget leaves ROI absent.
C7_Witness ==
    /\ pc = "connect"
    /\ \E i, j \in 1..Len(df) :
           /\ notna(df[i].ROI)
           /\ df[j].BudgetDollars = Num(-5) /\ notna(df[j].BoxOfficeDollars_Clean)

\* The key a cleaned row would take in DimTime.
TimeKey(r) == IF notna(r.RunTimeMinutes) /\ ~IntRaises(r.RunTimeMinutes)
              THEN int(r.RunTimeMinutes) ELSE -1

Carriers(key) == {i \in 1..Len(df) : TimeKey(df[i]) = key}

DatedCarriers(key) ==
    {i \in Carriers(key) : notna(df[i].ReleaseDate_Parsed)}

TimeInsertsPerKey(key) ==
    Cardinality({i \in 1..Len(ops) :
        ops[i].op = "execute" /\ ops[i].tbl = "DimTime" /\ ops[i].key = key})

\* C8 as stated: a DimTime row written by the run comes from the first row of
\* the batch carrying its RunTimeMinutes, whose date is present; one insert at
\* most is attempted per key.
C8_FirstRowOfKeySuppliesDimTime ==
    /\ \A r \in Written("DimTime") :
           /\ Carriers(r.TimeID) # {}
           /\ notna(df[First(Carriers(r.TimeID))].ReleaseDate_Parsed)
           /\ r.FullDate = df[First(Carriers(r.TimeID))].ReleaseDate_Parsed
    /\ \A i \in 1..Len(ops) :
           (ops[i].op = "execute" /\ ops[i].tbl = "DimTime")
               => TimeInsertsPerKey(ops[i].key) = 1

\* C8 amended: a DimTime row written by the run comes from the first row,
\* among the rows of the batch whose date is present, carrying its
\* RunTimeMinutes; it carries that row's date; one insert at most is attempted
\* per key, and none for a key that no dated row carries.
C8_FirstDatedRowOfKeySuppliesDimTime ==
    /\ \A r \in Written("DimTime") :
           /\ DatedCarriers(r.TimeID) # {}
           /\ notna(r.FullDate)
           /\ r.FullDate = df[First(DatedCarriers(r.TimeID))].ReleaseDate_Parsed
    /\ \A i \in 1..Len(ops) :
           (ops[i].op = "execute" /\ ops[i].tbl = "DimTime")
               => /\ TimeInsertsPerKey(ops[i].key) = 1
                  /\ DatedCarriers(ops[i].key) # {}

\* C8's case: the run wrote a DimTime row for a key whose first row in the
\* batch has no date, and which two rows of the batch carry with a date.
C8_Witness ==
    \E r \in Written("DimTime") :
        /\ Cardinality(Carriers(r.TimeID)) >= 2
        /\ isna(df[First(Carriers(r.TimeID))].ReleaseDate_Parsed)

\* C8's other case: two dated rows carry the key of a written DimTime row.
C8_WitnessTwoDated ==
    \E r \in Written("DimTime") :
        \E i, j \in DatedCarriers(r.TimeID) :
            df[i].ReleaseDate_Parsed # df[j].ReleaseDate_Parsed

\* C9: in the film sub-loader every row whose FilmID or Title is absent is a
\* row error: it is counted, and no DimFilm row is inserted for it.
C9_MissingFilmIdOrTitleIsRowError ==
    Reported("film") =>
        /\ ReportOf("film").errors >=
               Cardinality({i \in 1..Len(df) :
                   isna(df[i].FilmID) \/ isna(df[i].Title)})
        /\ \A r \in Written("DimFilm") :
               \E i \in 1..Len(df) :
                   /\ notna(df[i].FilmID) /\ notna(df[i].Title)
                   /\ r = FilmRow(df[i])

Failures(tbl) == CallsIn(tbl, {"rollback"})

\* C10: the inserted count a sub-loader reports is the number of rows it
\* added to its table, and its error count the number of rows that failed.
C10_ReportedCountsAreRowsAdded ==
    \A i \in 1..Len(printed) :
        LET tbl == TargetTable(printed[i].loader)
        IN  /\ printed[i].inserted
                   = Cardinality(db[tbl]) - Cardinality(snap[tbl])
            /\ printed[i].errors = Failures(tbl)

====
